---- MODULE Spec2Model ----
(***************************************************************************)
(* The CPU NDArray backend (ndarray_backend_cpu.cc): strided index walker, *)
(* Compact / EwiseSetitem / ScalarSetitem, element-wise kernels, Matmul,   *)
(* MatmulTiled with the AlignedDot micro-kernel, ReduceMax / ReduceSum.    *)
(*                                                                         *)
(* Conventions.  A std::vector or an AlignedArray is a TLA+ sequence; the  *)
(* C index i is the sequence index i + 1.  scalar_t values are integers    *)
(* (every kernel is exercised on integer-valued entries, on which float    *)
(* addition, multiplication and comparison are exact).  A size_t is kept   *)
(* at its width as eight little-endian bytes, an int32_t is an integer in  *)
(* -2^31 .. 2^31 - 1, and their arithmetic is carried out on bytes.        *)
(***************************************************************************)
EXTENDS Integers, Sequences, FiniteSets, TLC

VARIABLES pc, ops, args, mem, mem0, obs, indices_vector, visited

vars == <<pc, ops, args, mem, mem0, obs, indices_vector, visited>>

(***************************************************************************)
(* Bounds of the model.                                                    *)
(***************************************************************************)
MaxRank == 3
MaxAxis == 3
MaxViewRank == 2
MaxViewAxis == 2
BufLen == 4
MaxStride == 2
MaxDim == 2
MaxBlocks == 2
MaxOut == 2
MaxReduce == 3

(***************************************************************************)
(* Program constants.                                                      *)
(***************************************************************************)
TILE == 8
INT32_BYTES == 4
SIZE_T_BYTES == 8

(***************************************************************************)
(* Fixed-width arithmetic on little-endian byte sequences.                 *)
(***************************************************************************)
Pow256(e) == IF e = 0 THEN 1 ELSE IF e = 1 THEN 256 ELSE IF e = 2 THEN 65536 ELSE 16777216

\* two's complement of the int32_t value n, sign-extended to k bytes
ToBytes(n, k) ==
  [i \in 1..k |-> IF i <= INT32_BYTES THEN (n \div Pow256(i - 1)) % 256
                  ELSE IF n < 0 THEN 255 ELSE 0]

\* conversion of a narrower two's complement value to k bytes (sign extension)
SignExtend(x, k) ==
  [i \in 1..k |-> IF i <= Len(x) THEN x[i] ELSE IF x[Len(x)] >= 128 THEN 255 ELSE 0]

\* conversion of an unsigned value to k bytes (zero extension)
ZeroExtend(x, k) == [i \in 1..k |-> IF i <= Len(x) THEN x[i] ELSE 0]

\* bytes i, i+1, i+2 of x as one number below 2^24
Limb(x, i) == x[i] + 256 * x[i + 1] + 65536 * x[i + 2]

\* x + y modulo 2^64 for two size_t values, added in limbs of 24, 24 and 16 bits
AddBytes(x, y) ==
  LET lo == Limb(x, 1) + Limb(y, 1)
      mi == Limb(x, 4) + Limb(y, 4) + lo \div 16777216
      hi == x[7] + 256 * x[8] + y[7] + 256 * y[8] + mi \div 16777216
  IN  <<lo % 256, (lo \div 256) % 256, (lo \div 65536) % 256,
        mi % 256, (mi \div 256) % 256, (mi \div 65536) % 256,
        hi % 256, (hi \div 256) % 256>>

RECURSIVE ColumnSum(_, _, _, _)
ColumnSum(x, y, j, i) ==
  IF i > j THEN 0 ELSE x[i] * y[j - i + 1] + ColumnSum(x, y, j, i + 1)

RECURSIVE MulCarry(_, _, _, _)
MulCarry(x, y, j, carry) ==
  IF j > Len(x) THEN <<>>
  ELSE LET s == ColumnSum(x, y, j, 1) + carry
       IN  <<s % 256>> \o MulCarry(x, y, j + 1, s \div 256)

\* x * y modulo 256^Len(x) (the same bytes for signed and unsigned operands)
MulBytes(x, y) == MulCarry(x, y, 1, 0)

IsNegative(x) == x[Len(x)] >= 128

RECURSIVE LessFrom(_, _, _)
LessFrom(x, y, i) ==
  IF i = 0 THEN FALSE
  ELSE IF x[i] # y[i] THEN x[i] < y[i]
  ELSE LessFrom(x, y, i - 1)

\* unsigned comparison of two byte sequences of the same length
LessBytes(x, y) == LessFrom(x, y, Len(x))

\* a size_t that is small enough to index a modelled buffer, as an integer
IsSmall(x) == \A i \in 1..Len(x) : i >= INT32_BYTES => x[i] = 0

SmallValue(x) == x[1] + 256 * x[2] + 65536 * x[3]

(***************************************************************************)
(* Signed overflow of the int32_t product strides[i] * indices_vector[i]   *)
(* is undefined: a build either keeps the low 32 bits (imul, then sign     *)
(* extension to size_t) or multiplies the sign-extended operands in 64     *)
(* bits (smaddl).  Both agree whenever the product fits in an int32_t.     *)
(***************************************************************************)
OverflowOutcomes == {"wrap", "widen"}

\* factors below 2^15 in magnitude have a product that fits: no outcome to choose
SmallFactor(n) == -32768 < n /\ n < 32768

StrideTimesIndex(s, x, ovf) ==
  IF SmallFactor(s) /\ SmallFactor(x)
  THEN ToBytes(s * x, SIZE_T_BYTES)
  ELSE IF ovf = "wrap"
  THEN SignExtend(MulBytes(ToBytes(s, INT32_BYTES), ToBytes(x, INT32_BYTES)), SIZE_T_BYTES)
  ELSE MulBytes(ToBytes(s, SIZE_T_BYTES), ToBytes(x, SIZE_T_BYTES))

RECURSIVE getLocationLoop(_, _, _, _, _)
getLocationLoop(strides, loc, indices, i, ovf) ==
  IF i >= Len(indices) THEN loc
  ELSE getLocationLoop(strides,
                       AddBytes(loc, StrideTimesIndex(strides[i + 1], indices[i + 1], ovf)),
                       indices, i + 1, ovf)

\* size_t getLocation(strides, offset, indices_vector); offset and result are size_t bytes
getLocation(strides, offset, indices, ovf) == getLocationLoop(strides, offset, indices, 0, ovf)

(***************************************************************************)
(* updateIndices.  The loop variable is a size_t that starts at            *)
(* indices_vector.size() - 1: for an empty vector it wraps to SIZE_MAX and *)
(* the first test reads indices_vector[SIZE_MAX] and shape[SIZE_MAX], out  *)
(* of bounds.  That read either faults or returns garbage; with garbage    *)
(* the loop keeps touching out-of-bounds positions until it breaks or      *)
(* faults, and the (empty) vector is what it was.                          *)
(* Result: iv, the vector after the call; touched, the positions of        *)
(* indices_vector and shape the call used; wrapped, whether the loop       *)
(* variable started at SIZE_MAX; fault, whether the call faulted.          *)
(***************************************************************************)
OutOfBoundsOutcomes == {"fault", "garbage"}

\* updateIndices that carries without resetting the axis it leaves
RECURSIVE updateIndicesLoop_NoReset(_, _, _, _)
updateIndicesLoop_NoReset(shape, iv, i, touched) ==
  IF iv[i + 1] < shape[i + 1] - 1
  THEN [iv |-> [iv EXCEPT ![i + 1] = @ + 1], touched |-> touched \cup {i}]
  ELSE IF i = 0
  THEN [iv |-> iv, touched |-> touched \cup {i}]
  ELSE updateIndicesLoop_NoReset(shape, iv, i - 1, touched \cup {i})

RECURSIVE updateIndicesLoop(_, _, _, _)
updateIndicesLoop(shape, iv, i, touched) ==
  IF iv[i + 1] < shape[i + 1] - 1
  THEN [iv |-> [iv EXCEPT ![i + 1] = @ + 1], touched |-> touched \cup {i}]
  ELSE IF i = 0
  THEN [iv |-> iv, touched |-> touched \cup {i}]
  ELSE updateIndicesLoop(shape, [iv EXCEPT ![i + 1] = 0], i - 1, touched \cup {i})

updateIndices(shape, iv, oob) ==
  IF Len(iv) = 0
  THEN [iv |-> iv, touched |-> {}, wrapped |-> TRUE, fault |-> (oob = "fault")]
  ELSE LET r == updateIndicesLoop(shape, iv, Len(iv) - 1, {})
       IN  [iv |-> r.iv, touched |-> r.touched, wrapped |-> FALSE, fault |-> FALSE]

(***************************************************************************)
(* The heap: named AlignedArrays.  A kernel gets the names of its buffers, *)
(* so that two of its arguments may be the same array.                     *)
(***************************************************************************)
NoMem == [a |-> <<>>, b |-> <<>>, out |-> <<>>, ta |-> <<>>, tb |-> <<>>, tout |-> <<>>]

NoArgs == [shape |-> <<>>, strides |-> <<>>, offset |-> 0, val |-> 0,
           m |-> 0, n |-> 0, p |-> 0, reduce_size |-> 1, outBuf |-> "out"]

NoObs == [used |-> <<>>, locs |-> <<>>, touched |-> {}, wrapped |-> FALSE,
          stray |-> FALSE, reads |-> <<>>, writes |-> <<>>, loc |-> <<>>, len |-> <<>>]

\* a.ptr[loc] for a size_t loc: inside the array or not
InBuffer(loc, buf) == IsSmall(loc) /\ SmallValue(loc) < Len(buf)

\* the locals of the three view kernels on entry: indices_vector(shape.size(), 0)
StartLoop(h, view) ==
  [mem |-> h, iv |-> [i \in 1..Len(view.shape) |-> 0], used |-> <<>>, locs |-> <<>>,
   touched |-> {}, wrapped |-> FALSE, stray |-> FALSE, fault |-> FALSE]

(***************************************************************************)
(* Compact: for i < out->size, out[i] = a[getLocation(...)], then          *)
(* updateIndices.  st carries the heap, the index vector and the record of *)
(* what the loop used: the index tuples (used), the locations (locs), the  *)
(* positions updateIndices touched, and whether an access left a's array   *)
(* (stray), which ends the call with a fault.                              *)
(***************************************************************************)
RECURSIVE CompactLoop(_, _, _, _, _, _)
CompactLoop(st, A, O, view, i, ub) ==
  IF st.fault \/ i >= Len(st.mem[O]) THEN st
  ELSE LET loc == getLocation(view.strides, ToBytes(view.offset, SIZE_T_BYTES), st.iv, ub.ovf)
       IN  IF ~InBuffer(loc, st.mem[A])
           THEN [st EXCEPT !.fault = TRUE, !.stray = TRUE, !.used = Append(@, st.iv)]
           ELSE LET u == updateIndices(view.shape, st.iv, ub.oob)
                IN  CompactLoop([mem |-> [st.mem EXCEPT ![O][i + 1] = st.mem[A][SmallValue(loc) + 1]],
                                 iv |-> u.iv,
                                 used |-> Append(st.used, st.iv),
                                 locs |-> Append(st.locs, SmallValue(loc)),
                                 touched |-> st.touched \cup u.touched,
                                 wrapped |-> st.wrapped \/ u.wrapped,
                                 stray |-> FALSE,
                                 fault |-> u.fault],
                                A, O, view, i + 1, ub)

\* Compact that forgets the offset of the view
Compact_NoOffset(h, A, O, view, ub) ==
  CompactLoop(StartLoop(h, view), A, O, [view EXCEPT !.offset = 0], 0, ub)

Compact(h, A, O, view, ub) == CompactLoop(StartLoop(h, view), A, O, view, 0, ub)

(***************************************************************************)
(* EwiseSetitem: for i < a.size, out[getLocation(...)] = a[i], then        *)
(* updateIndices.                                                          *)
(***************************************************************************)
RECURSIVE EwiseSetitemLoop(_, _, _, _, _, _)
EwiseSetitemLoop(st, A, O, view, i, ub) ==
  IF st.fault \/ i >= Len(st.mem[A]) THEN st
  ELSE LET loc == getLocation(view.strides, ToBytes(view.offset, SIZE_T_BYTES), st.iv, ub.ovf)
       IN  IF ~InBuffer(loc, st.mem[O])
           THEN [st EXCEPT !.fault = TRUE, !.stray = TRUE, !.used = Append(@, st.iv)]
           ELSE LET u == updateIndices(view.shape, st.iv, ub.oob)
                IN  EwiseSetitemLoop([mem |-> [st.mem EXCEPT ![O][SmallValue(loc) + 1] = st.mem[A][i + 1]],
                                      iv |-> u.iv,
                                      used |-> Append(st.used, st.iv),
                                      locs |-> Append(st.locs, SmallValue(loc)),
                                      touched |-> st.touched \cup u.touched,
                                      wrapped |-> st.wrapped \/ u.wrapped,
                                      stray |-> FALSE,
                                      fault |-> u.fault],
                                     A, O, view, i + 1, ub)

\* EwiseSetitem that forgets the offset of the view
EwiseSetitem_NoOffset(h, A, O, view, ub) ==
  EwiseSetitemLoop(StartLoop(h, view), A, O, [view EXCEPT !.offset = 0], 0, ub)

EwiseSetitem(h, A, O, view, ub) == EwiseSetitemLoop(StartLoop(h, view), A, O, view, 0, ub)

(***************************************************************************)
(* ScalarSetitem: for i < size, out[getLocation(...)] = val, then          *)
(* updateIndices.                                                          *)
(***************************************************************************)
RECURSIVE ScalarSetitemLoop(_, _, _, _, _, _, _)
ScalarSetitemLoop(st, size, val, O, view, i, ub) ==
  IF st.fault \/ i >= size THEN st
  ELSE LET loc == getLocation(view.strides, ToBytes(view.offset, SIZE_T_BYTES), st.iv, ub.ovf)
       IN  IF ~InBuffer(loc, st.mem[O])
           THEN [st EXCEPT !.fault = TRUE, !.stray = TRUE, !.used = Append(@, st.iv)]
           ELSE LET u == updateIndices(view.shape, st.iv, ub.oob)
                IN  ScalarSetitemLoop([mem |-> [st.mem EXCEPT ![O][SmallValue(loc) + 1] = val],
                                       iv |-> u.iv,
                                       used |-> Append(st.used, st.iv),
                                       locs |-> Append(st.locs, SmallValue(loc)),
                                       touched |-> st.touched \cup u.touched,
                                       wrapped |-> st.wrapped \/ u.wrapped,
                                       stray |-> FALSE,
                                       fault |-> u.fault],
                                      size, val, O, view, i + 1, ub)

\* ScalarSetitem that stops one element short
ScalarSetitem_OneShort(h, size, val, O, view, ub) ==
  ScalarSetitemLoop(StartLoop(h, view), size - 1, val, O, view, 0, ub)

ScalarSetitem(h, size, val, O, view, ub) ==
  ScalarSetitemLoop(StartLoop(h, view), size, val, O, view, 0, ub)

(***************************************************************************)
(* Shapes, multi-indices and views, as the mathematics has them.           *)
(***************************************************************************)
RECURSIVE Product(_)
Product(shape) == IF shape = <<>> THEN 1 ELSE Head(shape) * Product(Tail(shape))

RECURSIVE SuffixProduct(_, _)
SuffixProduct(shape, i) ==
  IF i > Len(shape) THEN 1 ELSE shape[i] * SuffixProduct(shape, i + 1)

\* the k-th multi-index of shape in row-major order, k in 0 .. Product(shape) - 1
MultiIndex(shape, k) ==
  [i \in 1..Len(shape) |-> (k \div SuffixProduct(shape, i + 1)) % shape[i]]

AllIndices(shape) == {MultiIndex(shape, k) : k \in 0..(Product(shape) - 1)}

LastIndex(shape) == [i \in 1..Len(shape) |-> shape[i] - 1]

RECURSIVE Dot(_, _)
Dot(x, y) == IF x = <<>> THEN 0 ELSE Head(x) * Head(y) + Dot(Tail(x), Tail(y))

\* offset + sum_i strides[i] * idx[i], over the integers
Resolve(view, idx) == view.offset + Dot(view.strides, idx)

Reachable(view) == {Resolve(view, idx) : idx \in AllIndices(view.shape)}

CompactStrides(shape) == [i \in 1..Len(shape) |-> SuffixProduct(shape, i + 1)]

Vectors(r, S) == [1..r -> S]

(***************************************************************************)
(* The walker driven one step at a time: the caller consumes the current   *)
(* tuple, then calls updateIndices, Product(shape) times (the loops of     *)
(* Compact, EwiseSetitem and ScalarSetitem).                               *)
(***************************************************************************)
InitWalk ==
  /\ \E r \in 1..MaxRank : \E shape \in Vectors(r, 1..MaxAxis) :
       /\ args = [NoArgs EXCEPT !.shape = shape]
       /\ indices_vector = [i \in 1..r |-> 0]
  /\ pc = "walk"
  /\ ops = <<>>
  /\ mem = NoMem
  /\ mem0 = NoMem
  /\ obs = NoObs
  /\ visited = <<>>

WalkStep ==
  /\ pc = "walk"
  /\ Len(visited) < Product(args.shape)
  /\ \E oob \in OutOfBoundsOutcomes :
       LET u == updateIndices(args.shape, indices_vector, oob)
       IN  /\ indices_vector' = u.iv
           /\ obs' = [obs EXCEPT !.touched = @ \cup u.touched, !.wrapped = @ \/ u.wrapped]
  /\ visited' = Append(visited, indices_vector)
  /\ ops' = Append(ops, "updateIndices")
  /\ UNCHANGED <<pc, args, mem, mem0>>

NextWalk == WalkStep

SpecWalk == InitWalk /\ [][NextWalk]_vars

\* C1: from the all-zero tuple, repeated updateIndices visits every multi-index of a
\* shape of rank >= 1 with all axes >= 1 exactly once, in row-major order, and the
\* tuple reached after Product(shape) - 1 steps is (shape[0]-1, ..., shape[r-1]-1).
C1_RowMajorWalk ==
  /\ \A k \in 1..Len(visited) : visited[k] = MultiIndex(args.shape, k - 1)
  /\ Len(visited) < Product(args.shape) =>
       indices_vector = MultiIndex(args.shape, Len(visited))
  /\ Len(visited) = Product(args.shape) - 1 => indices_vector = LastIndex(args.shape)
  /\ Len(visited) = Product(args.shape) =>
       /\ {visited[k] : k \in 1..Len(visited)} =
            {idx \in Vectors(Len(args.shape), 0..MaxAxis) :
               \A i \in 1..Len(idx) : idx[i] < args.shape[i]}
       /\ \A j, k \in 1..Len(visited) : visited[j] = visited[k] => j = k

\* the walk over shape [2,3] has produced [0,0],[0,1],[0,2],[1,0],[1,1],[1,2]
C1_Witness ==
  /\ args.shape = <<2, 3>>
  /\ visited = << <<0, 0>>, <<0, 1>>, <<0, 2>>, <<1, 0>>, <<1, 1>>, <<1, 2>> >>

(***************************************************************************)
(* The view kernels.  mem.a is the array the view (shape, strides, offset) *)
(* looks into, mem.out the compact array of Product(shape) elements:       *)
(* Compact reads the view into mem.out, EwiseSetitem writes mem.out        *)
(* through the view, ScalarSetitem writes val through the view.  All       *)
(* elements of the two arrays are distinct, so a moved element is known by *)
(* its value.  A view resolves inside its array (the caller's contract).   *)
(***************************************************************************)
View == [shape |-> args.shape, strides |-> args.strides, offset |-> args.offset]

StridedArray(len) == [i \in 1..len |-> 10 + i]

CompactArray(len) == [i \in 1..len |-> 100 + i]

\* the outcomes of undefined behaviour that a call on this view can tell apart:
\* updateIndices leaves the vector only for rank 0, and a product overflows for some
\* index of an axis only if it does for the largest
Overflows(s, x) == StrideTimesIndex(s, x, "wrap") # StrideTimesIndex(s, x, "widen")

UndefinedOutcomes(view) ==
  [oob : IF Len(view.shape) = 0 THEN OutOfBoundsOutcomes ELSE {"garbage"},
   ovf : IF \E i \in 1..Len(view.shape) :
               view.shape[i] >= 1 /\ Overflows(view.strides[i], view.shape[i] - 1)
         THEN OverflowOutcomes ELSE {"wrap"}]

InitView ==
  /\ \E r \in 0..MaxViewRank :
       \E shape \in Vectors(r, 0..MaxViewAxis) :
         \E strides \in Vectors(r, (-1)..MaxStride) :
           \E len \in {BufLen} \cup ({Product(shape)} \cap 1..BufLen) :
             \E offset \in 0..(len - 1) :
               /\ Product(shape) <= 2 * BufLen
               /\ Product(shape) = 0 => strides = [i \in 1..r |-> 0]
               /\ Reachable([shape |-> shape, strides |-> strides, offset |-> offset])
                    \subseteq 0..(len - 1)
               /\ args = [NoArgs EXCEPT !.shape = shape, !.strides = strides,
                                        !.offset = offset, !.val = 7]
               /\ mem = [NoMem EXCEPT !.a = StridedArray(len),
                                      !.out = CompactArray(Product(shape))]
  /\ mem0 = mem
  /\ pc = "ready"
  /\ ops = <<>>
  /\ obs = NoObs
  /\ indices_vector = <<>>
  /\ visited = <<>>

Observed(r) ==
  [NoObs EXCEPT !.used = r.used, !.locs = r.locs, !.touched = r.touched,
                !.wrapped = r.wrapped, !.stray = r.stray]

DoCompact ==
  /\ pc = "ready"
  /\ \E ub \in UndefinedOutcomes(View) :
       LET r == Compact(mem, "a", "out", View, ub)
       IN  /\ mem' = r.mem
           /\ obs' = Observed(r)
           /\ pc' = IF r.fault THEN "fault" ELSE "done"
  /\ mem0' = mem
  /\ ops' = Append(ops, "Compact")
  /\ UNCHANGED <<args, indices_vector, visited>>

\* called on a fresh state, or on the array Compact has just produced
DoEwiseSetitem ==
  /\ pc \in {"ready", "done"}
  /\ ops \in {<<>>, <<"Compact">>}
  /\ \E ub \in UndefinedOutcomes(View) :
       LET r == EwiseSetitem(mem, "out", "a", View, ub)
       IN  /\ mem' = r.mem
           /\ obs' = Observed(r)
           /\ pc' = IF r.fault THEN "fault" ELSE "done"
  /\ mem0' = mem
  /\ ops' = Append(ops, "EwiseSetitem")
  /\ UNCHANGED <<args, indices_vector, visited>>

DoScalarSetitem ==
  /\ pc = "ready"
  /\ \E ub \in UndefinedOutcomes(View) :
       LET r == ScalarSetitem(mem, Product(args.shape), args.val, "a", View, ub)
       IN  /\ mem' = r.mem
           /\ obs' = Observed(r)
           /\ pc' = IF r.fault THEN "fault" ELSE "done"
  /\ mem0' = mem
  /\ ops' = Append(ops, "ScalarSetitem")
  /\ UNCHANGED <<args, indices_vector, visited>>

NextView == DoCompact \/ DoEwiseSetitem \/ DoScalarSetitem

SpecView == InitView /\ [][NextView]_vars

LastOp == IF ops = <<>> THEN "none" ELSE ops[Len(ops)]

Written == {obs.locs[k] : k \in 1..Len(obs.locs)}

\* the largest row-major rank whose multi-index resolves to loc
LastRank(view, loc) ==
  CHOOSE k \in 0..(Product(view.shape) - 1) :
    /\ Resolve(view, MultiIndex(view.shape, k)) = loc
    /\ \A j \in 0..(Product(view.shape) - 1) :
         Resolve(view, MultiIndex(view.shape, j)) = loc => j <= k

\* C2: Compact(V) into a fresh array of Product(shape) elements followed by
\* EwiseSetitem of that array through V leaves the viewed array unchanged at every
\* location V reaches, also when several multi-indices resolve to one location.
C2_RoundTrip ==
  ops = <<"Compact", "EwiseSetitem">> =>
    \A loc \in Reachable(View) : mem.a[loc + 1] = StridedArray(Len(mem.a))[loc + 1]

\* a round trip through a view whose two rows are the same two locations
C2_Witness ==
  /\ ops = <<"Compact", "EwiseSetitem">>
  /\ pc = "done"
  /\ args.shape = <<2, 2>>
  /\ args.strides = <<0, 1>>
  /\ args.offset = 1
  /\ Written = {1, 2}

\* C3: Compact sets out[k] = a[offset + sum_i strides[i] * idx_k[i]] for every k below
\* out.size, idx_k the k-th multi-index in row-major order, and leaves a unchanged;
\* with the row-major strides of shape and offset 0, out equals a element-wise.
C3_Compact ==
  ops = <<"Compact">> =>
    /\ \A k \in 0..(Len(mem.out) - 1) :
         mem.out[k + 1] = mem0.a[Resolve(View, MultiIndex(args.shape, k)) + 1]
    /\ mem.a = mem0.a
    /\ (args.strides = CompactStrides(args.shape) /\ args.offset = 0
          /\ Product(args.shape) = Len(mem0.a)) => mem.out = mem0.a

\* the transpose of a 2 x 2 array has been compacted
C3_Witness ==
  /\ ops = <<"Compact">>
  /\ pc = "done"
  /\ args.shape = <<2, 2>>
  /\ args.strides = <<1, 2>>
  /\ args.offset = 0
  /\ mem.out = <<11, 13, 12, 14>>

\* C4: EwiseSetitem and ScalarSetitem write exactly the locations the view reaches;
\* after ScalarSetitem each holds val, after EwiseSetitem each holds the source element
\* of the largest row-major rank that resolves to it; the rest of the target and the
\* source are unchanged.
C4_SetitemFrame ==
  /\ LastOp = "EwiseSetitem" =>
       /\ \A loc \in 0..(Len(mem.a) - 1) :
            /\ loc \in Written <=> loc \in Reachable(View)
            /\ loc \in Reachable(View) => mem.a[loc + 1] = mem0.out[LastRank(View, loc) + 1]
            /\ loc \notin Reachable(View) => mem.a[loc + 1] = mem0.a[loc + 1]
       /\ Len(mem.a) = Len(mem0.a)
       /\ mem.out = mem0.out
  /\ LastOp = "ScalarSetitem" =>
       /\ \A loc \in 0..(Len(mem.a) - 1) :
            /\ loc \in Written <=> loc \in Reachable(View)
            /\ loc \in Reachable(View) => mem.a[loc + 1] = args.val
            /\ loc \notin Reachable(View) => mem.a[loc + 1] = mem0.a[loc + 1]
       /\ Len(mem.a) = Len(mem0.a)
       /\ mem.out = mem0.out

\* EwiseSetitem through a view whose two elements are one location: the later wins
C4_Witness ==
  /\ ops = <<"EwiseSetitem">>
  /\ pc = "done"
  /\ args.shape = <<2>>
  /\ args.strides = <<0>>
  /\ args.offset = 1
  /\ mem.a = <<11, 102, 13, 14>>

\* C8: in Compact, EwiseSetitem and ScalarSetitem with the element count
\* Product(shape), rank-0 and zero-sized shapes included, the traversal has
\* Product(shape) tuples, every tuple used is within the shape, and every call of
\* updateIndices touches only positions 0 .. rank-1 of the index tuple and of shape.
C8_WalkerInBounds ==
  LastOp \in {"Compact", "EwiseSetitem", "ScalarSetitem"} =>
    /\ Len(obs.used) = Product(args.shape)
    /\ \A k \in 1..Len(obs.used) :
         \A i \in 1..Len(args.shape) : 0 <= obs.used[k][i] /\ obs.used[k][i] < args.shape[i]
    /\ obs.touched \subseteq 0..(Len(args.shape) - 1)
    /\ ~obs.wrapped

(***************************************************************************)
(* getLocation on its own, on strides and indices over the int32_t range   *)
(* and arrays of up to 2^40 elements.  obs.loc is the size_t returned,     *)
(* obs.len the length of the array (a size_t).                             *)
(***************************************************************************)
LocStrides == {-1073741824, -1, 0, 1, 65536, 1073741824}

LocIndices == {0, 1, 2, 32768}

LocOffsets == {0, 5}

\* 256^e as a size_t
PowerOf256(e) == [i \in 1..SIZE_T_BYTES |-> IF i = e + 1 THEN 1 ELSE 0]

LocLengths == {PowerOf256(1), PowerOf256(4), PowerOf256(5)}

InitLoc ==
  /\ \E r \in 1..MaxViewRank :
       \E strides \in Vectors(r, LocStrides) :
         \E indices \in Vectors(r, LocIndices) :
           \E offset \in LocOffsets :
             /\ args = [NoArgs EXCEPT !.shape = [i \in 1..r |-> indices[i] + 1],
                                      !.strides = strides, !.offset = offset]
             /\ indices_vector = indices
  /\ \E len \in LocLengths : obs = [NoObs EXCEPT !.len = len]
  /\ pc = "ready"
  /\ ops = <<>>
  /\ mem = NoMem
  /\ mem0 = NoMem
  /\ visited = <<>>

DoGetLocation ==
  /\ pc = "ready"
  /\ \E ovf \in OverflowOutcomes :
       obs' = [obs EXCEPT !.loc = getLocation(args.strides, ToBytes(args.offset, SIZE_T_BYTES),
                                              indices_vector, ovf)]
  /\ pc' = "done"
  /\ ops' = Append(ops, "getLocation")
  /\ UNCHANGED <<args, mem, mem0, indices_vector, visited>>

NextLoc == DoGetLocation

SpecLoc == InitLoc /\ [][NextLoc]_vars

RECURSIVE AddCarry(_, _, _, _)
AddCarry(x, y, i, carry) ==
  IF i > Len(x) THEN <<>>
  ELSE LET s == x[i] + y[i] + carry
       IN  <<s % 256>> \o AddCarry(x, y, i + 1, s \div 256)

\* x + y modulo 256^Len(x)
AddWide(x, y) == AddCarry(x, y, 1, 0)

\* offset + sum_i strides[i] * indices[i] over the integers, as a two's complement
\* number of twice the width of a size_t (wide enough to hold it exactly)
RECURSIVE ExactSum(_, _, _)
ExactSum(strides, indices, i) ==
  IF i > Len(indices) THEN ToBytes(0, 2 * SIZE_T_BYTES)
  ELSE AddWide(MulBytes(ToBytes(strides[i], 2 * SIZE_T_BYTES),
                        ToBytes(indices[i], 2 * SIZE_T_BYTES)),
               ExactSum(strides, indices, i + 1))

ExactLocation ==
  AddWide(ToBytes(args.offset, 2 * SIZE_T_BYTES), ExactSum(args.strides, indices_vector, 1))

ExactInArray ==
  /\ ~IsNegative(ExactLocation)
  /\ LessBytes(ExactLocation, ZeroExtend(obs.len, 2 * SIZE_T_BYTES))

\* C10: getLocation returns exactly offset + sum_i strides[i] * indices[i] for every
\* int32_t strides and in-range indices whenever that value lies inside the array:
\* neither the 32-bit product nor the accumulation modulo 2^64 changes the result.
C10_ExactLocation ==
  (LastOp = "getLocation" /\ ExactInArray) =>
    ZeroExtend(obs.loc, 2 * SIZE_T_BYTES) = ExactLocation

\* what getLocation is observed to satisfy: the same, for products that fit an int32_t
ExactWhenProductsFit ==
  (LastOp = "getLocation" /\ ExactInArray
     /\ \A i \in 1..Len(indices_vector) : ~Overflows(args.strides[i], indices_vector[i])) =>
    ZeroExtend(obs.loc, 2 * SIZE_T_BYTES) = ExactLocation

(***************************************************************************)
(* Counted loops.  For(Body, st, lo, hi) is                                *)
(*     for (i = lo; i < hi; i++) st = Body(st, i);                         *)
(* the iterations run in increasing order of i, each on the state the      *)
(* previous one left.  The range is split in halves, and the first half is *)
(* evaluated (by the test half = half) before the second is entered, only  *)
(* to keep the evaluation shallow.                                         *)
(***************************************************************************)
RECURSIVE For(_, _, _, _)
For(Body(_, _), st, lo, hi) ==
  IF lo >= hi THEN st
  ELSE IF hi = lo + 1 THEN Body(st, lo)
  ELSE LET half == For(Body, st, lo, (lo + hi) \div 2)
       IN  IF half = half THEN For(Body, half, (lo + hi) \div 2, hi) ELSE half

(***************************************************************************)
(* Element-wise and scalar kernels: for i < a.size, out[i] = f(a[i], ...). *)
(* h is the heap; A, B, O name the arrays of a, b and out.                 *)
(***************************************************************************)
EwiseAdd(h, A, B, O) ==
  For(LAMBDA st, i : [st EXCEPT ![O][i + 1] = st[A][i + 1] + st[B][i + 1]], h, 0, Len(h[A]))

ScalarAdd(h, A, val, O) ==
  For(LAMBDA st, i : [st EXCEPT ![O][i + 1] = st[A][i + 1] + val], h, 0, Len(h[A]))

EwiseMul(h, A, B, O) ==
  For(LAMBDA st, i : [st EXCEPT ![O][i + 1] = st[A][i + 1] * st[B][i + 1]], h, 0, Len(h[A]))

ScalarMul(h, A, val, O) ==
  For(LAMBDA st, i : [st EXCEPT ![O][i + 1] = st[A][i + 1] * val], h, 0, Len(h[A]))

\* scalar_t(x >= y)
GeAsScalar(x, y) == IF x >= y THEN 1 ELSE 0

EwiseGe(h, A, B, O) ==
  For(LAMBDA st, i : [st EXCEPT ![O][i + 1] = GeAsScalar(st[A][i + 1], st[B][i + 1])],
      h, 0, Len(h[A]))

ScalarGe(h, A, val, O) ==
  For(LAMBDA st, i : [st EXCEPT ![O][i + 1] = GeAsScalar(st[A][i + 1], val)], h, 0, Len(h[A]))

(***************************************************************************)
(* Matmul: for i < m, for j < p: out[i*p+j] = 0; for k < n:                *)
(* out[i*p+j] += a[i*n+k] * b[k*p+j].  The indices are uint32_t; the       *)
(* matrices of the model are far below 2^32 elements.                      *)
(***************************************************************************)
\* a cell accumulated without being zeroed first
MatmulCell_NoZero(h, A, B, O, n, p, i, j) ==
  For(LAMBDA st, k : [st EXCEPT ![O][i * p + j + 1] =
                        @ + st[A][i * n + k + 1] * st[B][k * p + j + 1]],
      h, 0, n)

MatmulCell(h, A, B, O, n, p, i, j) ==
  For(LAMBDA st, k : [st EXCEPT ![O][i * p + j + 1] =
                        @ + st[A][i * n + k + 1] * st[B][k * p + j + 1]],
      [h EXCEPT ![O][i * p + j + 1] = 0], 0, n)

Matmul(h, A, B, O, m, n, p) ==
  For(LAMBDA s1, i : For(LAMBDA s2, j : MatmulCell(s2, A, B, O, n, p, i, j), s1, 0, p),
      h, 0, m)

(***************************************************************************)
(* AlignedDot: out[i*TILE+j] += a[i*TILE+k] * b[k*TILE+j] on three         *)
(* TILE x TILE tiles that do not overlap (__restrict__).                   *)
(***************************************************************************)
\* a micro-kernel that overwrites out instead of adding to it
AlignedDot_Overwrite(a, b, out) ==
  For(LAMBDA o1, i :
        For(LAMBDA o2, j :
              For(LAMBDA o3, k : [o3 EXCEPT ![i * TILE + j + 1] =
                                    a[i * TILE + k + 1] * b[k * TILE + j + 1]],
                  o2, 0, TILE),
            o1, 0, TILE),
      out, 0, TILE)

AlignedDot(a, b, out) ==
  For(LAMBDA o1, i :
        For(LAMBDA o2, j :
              For(LAMBDA o3, k : [o3 EXCEPT ![i * TILE + j + 1] =
                                    @ + a[i * TILE + k + 1] * b[k * TILE + j + 1]],
                  o2, 0, TILE),
            o1, 0, TILE),
      out, 0, TILE)

(***************************************************************************)
(* MatmulTiled.  st is the heap with the locals tile_a, tile_b, tmp_res.   *)
(***************************************************************************)
\* the "make tile" loops for the blocks (i, k) of a and (k, j) of b
MakeTiles(st, A, B, n, p, i, j, k) ==
  For(LAMBDA t1, ii :
        For(LAMBDA t2, jj :
              [t2 EXCEPT
                 !.tile_a[ii * TILE + jj + 1] =
                    t2.mem[A][i * n * TILE + k * TILE * TILE + ii * TILE + jj + 1],
                 !.tile_b[ii * TILE + jj + 1] =
                    t2.mem[B][k * p * TILE + j * TILE * TILE + ii * TILE + jj + 1]],
            t1, 0, TILE),
      st, 0, TILE)

\* the loops that write tmp_res back to the block (i, j) of out
WriteBack(st, O, p, i, j) ==
  For(LAMBDA t1, ii :
        For(LAMBDA t2, jj :
              [t2 EXCEPT !.mem[O][i * p * TILE + j * TILE * TILE + ii * TILE + jj + 1] =
                            t2.tmp_res[ii * TILE + jj + 1]],
            t1, 0, TILE),
      st, 0, TILE)

TiledBlock(st, A, B, O, n, p, i, j) ==
  WriteBack(For(LAMBDA t, k :
                  LET made == MakeTiles(t, A, B, n, p, i, j, k)
                  IN  [made EXCEPT !.tmp_res = AlignedDot(made.tile_a, made.tile_b, made.tmp_res)],
                [st EXCEPT !.tmp_res = [x \in 1..(TILE * TILE) |-> 0]], 0, n \div TILE),
            O, p, i, j)

MatmulTiled(h, A, B, O, m, n, p) ==
  For(LAMBDA s1, i :
        For(LAMBDA s2, j : TiledBlock(s2, A, B, O, n, p, i, j), s1, 0, p \div TILE),
      [mem |-> h,
       tile_a |-> [x \in 1..(TILE * TILE) |-> 0],
       tile_b |-> [x \in 1..(TILE * TILE) |-> 0],
       tmp_res |-> <<>>],
      0, m \div TILE).mem

(***************************************************************************)
(* The compute kernels on compact arrays.  a is m x n and b is n x p in    *)
(* row-major order; ta, tb are the same matrices in the block layout       *)
(* [rows/TILE][cols/TILE][TILE][TILE]; out and tout hold garbage before    *)
(* the call.  args.outBuf names the array passed as out to the row-major   *)
(* kernels: "out", or (for the small matrices) one of the inputs.          *)
(***************************************************************************)
\* the index in the block layout of the element (r, c) of a matrix with cols columns
TiledIndex(r, c, cols) ==
  ((r \div TILE) * (cols \div TILE) + (c \div TILE)) * TILE * TILE
    + (r % TILE) * TILE + (c % TILE)

\* the block layout of the row-major rows x cols matrix M
ToTiled(M, rows, cols) ==
  [t \in 1..(rows * cols) |->
     LET blk == (t - 1) \div (TILE * TILE)
         ii == ((t - 1) % (TILE * TILE)) \div TILE
         jj == (t - 1) % TILE
         r == (blk \div (cols \div TILE)) * TILE + ii
         c == (blk % (cols \div TILE)) * TILE + jj
     IN  M[r * cols + c + 1]]

Tileable(k) == k % TILE = 0

Dims == (0..MaxDim) \cup {TILE * k : k \in 0..MaxBlocks}

\* the contents of the inputs: consecutive numbers, or a mix of signs
Entry(pattern, base, i) == IF pattern = "ramp" THEN base + i ELSE ((3 * i + base) % 5) - 2

InitKernels ==
  /\ \E m \in Dims, n \in Dims, p \in Dims :
       \E pattern \in {"ramp", "mix"}, garbage \in {0, 9} :
         \E outBuf \in {"out"}
               \cup (IF {m, n, p} \subseteq 0..MaxDim /\ m * n = m * p THEN {"a"} ELSE {})
               \cup (IF {m, n, p} \subseteq 0..MaxDim /\ n * p = m * p THEN {"b"} ELSE {}) :
           LET a == [i \in 1..(m * n) |-> Entry(pattern, 0, i)]
               b == [i \in 1..(n * p) |-> Entry(pattern, m * n, i)]
               tiled == Tileable(m) /\ Tileable(n) /\ Tileable(p)
           IN  /\ {m, n, p} \subseteq 0..MaxDim \/ tiled
               /\ args = [NoArgs EXCEPT !.m = m, !.n = n, !.p = p, !.val = 2,
                                        !.outBuf = outBuf]
               /\ mem = [a |-> a, b |-> b,
                         out |-> [i \in 1..(m * p) |-> garbage],
                         ta |-> IF tiled THEN ToTiled(a, m, n) ELSE <<>>,
                         tb |-> IF tiled THEN ToTiled(b, n, p) ELSE <<>>,
                         tout |-> IF tiled THEN [i \in 1..(m * p) |-> garbage] ELSE <<>>]
  /\ mem0 = mem
  /\ pc = "ready"
  /\ ops = <<>>
  /\ obs = NoObs
  /\ indices_vector = <<>>
  /\ visited = <<>>

\* a, b and the array passed as out have the same length (the caller's contract)
SameLength == Len(mem.a) = Len(mem.b) /\ Len(mem[args.outBuf]) = Len(mem.a)

Ran(name) == \E k \in 1..Len(ops) : ops[k] = name

Call(name, after) ==
  /\ mem' = after
  /\ mem0' = mem
  /\ ops' = Append(ops, name)
  /\ pc' = "done"
  /\ UNCHANGED <<args, obs, indices_vector, visited>>

DoEwiseAdd ==
  /\ ops = <<>> /\ SameLength
  /\ Call("EwiseAdd", EwiseAdd(mem, "a", "b", args.outBuf))

DoScalarAdd ==
  /\ ops = <<>> /\ SameLength
  /\ Call("ScalarAdd", ScalarAdd(mem, "a", args.val, args.outBuf))

DoEwiseMul ==
  /\ ops = <<>> /\ SameLength
  /\ Call("EwiseMul", EwiseMul(mem, "a", "b", args.outBuf))

DoScalarMul ==
  /\ ops = <<>> /\ SameLength
  /\ Call("ScalarMul", ScalarMul(mem, "a", args.val, args.outBuf))

DoEwiseGe ==
  /\ ops = <<>> /\ SameLength
  /\ Call("EwiseGe", EwiseGe(mem, "a", "b", args.outBuf))

DoScalarGe ==
  /\ ops = <<>> /\ SameLength
  /\ Call("ScalarGe", ScalarGe(mem, "a", args.val, args.outBuf))

\* out is m x p: one of the inputs can be passed as out only in the square case
DoMatmul ==
  /\ ops \in {<<>>, <<"MatmulTiled">>}
  /\ args.outBuf # "out" => (args.m = args.n /\ args.n = args.p)
  /\ Call("Matmul", Matmul(mem, "a", "b", args.outBuf, args.m, args.n, args.p))

\* only called when m, n, p are multiples of TILE
DoMatmulTiled ==
  /\ ops \in {<<>>, <<"Matmul">>}
  /\ Tileable(args.m) /\ Tileable(args.n) /\ Tileable(args.p)
  /\ Call("MatmulTiled", MatmulTiled(mem, "ta", "tb", "tout", args.m, args.n, args.p))

NextKernels ==
  \/ DoEwiseAdd \/ DoScalarAdd \/ DoEwiseMul \/ DoScalarMul \/ DoEwiseGe \/ DoScalarGe
  \/ DoMatmul \/ DoMatmulTiled

SpecKernels == InitKernels /\ [][NextKernels]_vars

RECURSIVE SumTo(_, _)
SumTo(F(_), n) == IF n = 0 THEN 0 ELSE SumTo(F, n - 1) + F(n - 1)

\* sum over k < n of A[i,k] * B[k,j] for row-major A (.. x n) and B (n x p)
DotRowColumn(A, B, n, p, i, j) == SumTo(LAMBDA k : A[i * n + k + 1] * B[k * p + j + 1], n)

MatrixProduct(A, B, m, n, p) ==
  [x \in 1..(m * p) |-> DotRowColumn(A, B, n, p, (x - 1) \div p, (x - 1) % p)]

\* C5: Matmul on buffers distinct from out leaves out[i*p+j] = sum_k a[i*n+k]*b[k*p+j]
\* for all m, n, p >= 0, whatever out held before (all zero for n = 0).
C5_Matmul ==
  (LastOp = "Matmul" /\ args.outBuf = "out") =>
    /\ mem.out = MatrixProduct(mem0.a, mem0.b, args.m, args.n, args.p)
    /\ mem.a = mem0.a /\ mem.b = mem0.b

\* [[1,2],[3,4]] x [[5,6],[7,8]] = [[19,22],[43,50]] over an out that held garbage
C5_Witness ==
  /\ ops = <<"Matmul">>
  /\ args.outBuf = "out"
  /\ mem0.a = <<1, 2, 3, 4>> /\ mem0.b = <<5, 6, 7, 8>> /\ mem0.out = <<9, 9, 9, 9>>
  /\ args.m = 2 /\ args.n = 2 /\ args.p = 2
  /\ mem.out = <<19, 22, 43, 50>>

\* C6: for m, n, p multiples of TILE, MatmulTiled on the block layouts of a and b
\* leaves in tout the block layout of what Matmul leaves in out, in every cell,
\* whatever tout held before.
C6_TiledEqualsNaive ==
  (Ran("Matmul") /\ Ran("MatmulTiled") /\ args.outBuf = "out") =>
    /\ Len(mem.tout) = args.m * args.p
    /\ \A r \in 0..(args.m - 1) : \A c \in 0..(args.p - 1) :
         mem.tout[TiledIndex(r, c, args.p) + 1] = mem.out[r * args.p + c + 1]

\* both have run on a product with two reduction blocks and a non-zero result
C6_Witness ==
  /\ Ran("Matmul") /\ Ran("MatmulTiled") /\ args.outBuf = "out"
  /\ args.n = 2 * TILE /\ args.m >= TILE /\ args.p >= TILE
  /\ \E x \in 1..Len(mem.tout) : mem.tout[x] # 0
  /\ mem.tout # mem.out

\* C9: no kernel but AlignedDot assumes its arrays distinct: with out one of the
\* inputs, the element-wise and scalar kernels still leave out[i] = f(a0[i], b0[i]) and
\* the square Matmul still leaves out[i,j] = sum_k a0[i,k] * b0[k,j], a0 and b0 being
\* the contents on entry.
C9_AliasingSafe ==
  LET result == mem[args.outBuf]
      same(F(_)) == result = [i \in 1..Len(mem0.a) |-> F(i)]
  IN  /\ LastOp = "EwiseAdd" => same(LAMBDA i : mem0.a[i] + mem0.b[i])
      /\ LastOp = "ScalarAdd" => same(LAMBDA i : mem0.a[i] + args.val)
      /\ LastOp = "EwiseMul" => same(LAMBDA i : mem0.a[i] * mem0.b[i])
      /\ LastOp = "ScalarMul" => same(LAMBDA i : mem0.a[i] * args.val)
      /\ LastOp = "EwiseGe" => same(LAMBDA i : GeAsScalar(mem0.a[i], mem0.b[i]))
      /\ LastOp = "ScalarGe" => same(LAMBDA i : GeAsScalar(mem0.a[i], args.val))
      /\ LastOp = "Matmul" =>
           result = MatrixProduct(mem0.a, mem0.b, args.m, args.n, args.p)

\* what the kernels are observed to do with out one of the inputs: the element-wise
\* and scalar kernels compute from the contents on entry
ElementwiseAliasingSafe ==
  LET result == mem[args.outBuf]
      same(F(_)) == result = [i \in 1..Len(mem0.a) |-> F(i)]
  IN  /\ LastOp = "EwiseAdd" => same(LAMBDA i : mem0.a[i] + mem0.b[i])
      /\ LastOp = "ScalarAdd" => same(LAMBDA i : mem0.a[i] + args.val)
      /\ LastOp = "EwiseMul" => same(LAMBDA i : mem0.a[i] * mem0.b[i])
      /\ LastOp = "ScalarMul" => same(LAMBDA i : mem0.a[i] * args.val)
      /\ LastOp = "EwiseGe" => same(LAMBDA i : GeAsScalar(mem0.a[i], mem0.b[i]))
      /\ LastOp = "ScalarGe" => same(LAMBDA i : GeAsScalar(mem0.a[i], args.val))

(***************************************************************************)
(* ReduceMax and ReduceSum over runs of reduce_size elements of a.  st is  *)
(* the heap with the counter cnt and the record of the accesses: reads,    *)
(* the indices of a read, and writes, the indices of out written, both in  *)
(* program order.  The loop over i steps by reduce_size: its t-th          *)
(* iteration has i = t * reduce_size and runs while i < a.size.            *)
(***************************************************************************)
CeilDiv(x, y) == (x + y - 1) \div y

ReduceMaxRun(st, A, O, reduce_size, i) ==
  LET first == [st EXCEPT !.max_num = st.mem[A][i + 1], !.reads = Append(@, i)]
      scanned == For(LAMBDA s, j : [s EXCEPT !.max_num = IF s.mem[A][j + 1] > @
                                                         THEN s.mem[A][j + 1] ELSE @,
                                              !.reads = Append(@, j)],
                     first, i + 1, i + reduce_size)
  IN  [scanned EXCEPT !.mem[O][scanned.cnt + 1] = scanned.max_num,
                      !.writes = Append(@, scanned.cnt),
                      !.cnt = @ + 1]

ReduceMax(h, A, O, reduce_size) ==
  For(LAMBDA st, t : ReduceMaxRun(st, A, O, reduce_size, t * reduce_size),
      [mem |-> h, cnt |-> 0, max_num |-> 0, reads |-> <<>>, writes |-> <<>>],
      0, CeilDiv(Len(h[A]), reduce_size))

\* a sum that is not reset at the start of a run
ReduceSumRun_NoReset(st, A, O, reduce_size, i) ==
  LET summed == For(LAMBDA s, j : [s EXCEPT !.sum_res = @ + s.mem[A][j + 1],
                                            !.reads = Append(@, j)],
                    st, i, i + reduce_size)
  IN  [summed EXCEPT !.mem[O][summed.cnt + 1] = summed.sum_res,
                     !.writes = Append(@, summed.cnt),
                     !.cnt = @ + 1]

ReduceSumRun(st, A, O, reduce_size, i) ==
  LET summed == For(LAMBDA s, j : [s EXCEPT !.sum_res = @ + s.mem[A][j + 1],
                                            !.reads = Append(@, j)],
                    [st EXCEPT !.sum_res = 0], i, i + reduce_size)
  IN  [summed EXCEPT !.mem[O][summed.cnt + 1] = summed.sum_res,
                     !.writes = Append(@, summed.cnt),
                     !.cnt = @ + 1]

ReduceSum(h, A, O, reduce_size) ==
  For(LAMBDA st, t : ReduceSumRun(st, A, O, reduce_size, t * reduce_size),
      [mem |-> h, cnt |-> 0, sum_res |-> 0, reads |-> <<>>, writes |-> <<>>],
      0, CeilDiv(Len(h[A]), reduce_size))

ReduceValues == {-1, 2}

InitReduce ==
  /\ \E count \in 0..MaxOut : \E reduce_size \in 1..MaxReduce :
       \E a \in [1..(count * reduce_size) -> ReduceValues]
                  \cup {[i \in 1..(count * reduce_size) |-> i]} :
         /\ args = [NoArgs EXCEPT !.reduce_size = reduce_size]
         /\ mem = [NoMem EXCEPT !.a = a, !.out = [i \in 1..count |-> 9]]
  /\ mem0 = mem
  /\ pc = "ready"
  /\ ops = <<>>
  /\ obs = NoObs
  /\ indices_vector = <<>>
  /\ visited = <<>>

DoReduceMax ==
  /\ pc = "ready"
  /\ LET r == ReduceMax(mem, "a", "out", args.reduce_size)
     IN  /\ mem' = r.mem
         /\ obs' = [NoObs EXCEPT !.reads = r.reads, !.writes = r.writes]
  /\ mem0' = mem
  /\ pc' = "done"
  /\ ops' = Append(ops, "ReduceMax")
  /\ UNCHANGED <<args, indices_vector, visited>>

DoReduceSum ==
  /\ pc = "ready"
  /\ LET r == ReduceSum(mem, "a", "out", args.reduce_size)
     IN  /\ mem' = r.mem
         /\ obs' = [NoObs EXCEPT !.reads = r.reads, !.writes = r.writes]
  /\ mem0' = mem
  /\ pc' = "done"
  /\ ops' = Append(ops, "ReduceSum")
  /\ UNCHANGED <<args, indices_vector, visited>>

NextReduce == DoReduceMax \/ DoReduceSum

SpecReduce == InitReduce /\ [][NextReduce]_vars

\* the run i of a: elements i * reduce_size .. (i + 1) * reduce_size - 1
RunOf(i) == {mem0.a[j + 1] : j \in (i * args.reduce_size)..((i + 1) * args.reduce_size - 1)}

RunSum(i) == SumTo(LAMBDA k : mem0.a[i * args.reduce_size + k + 1], args.reduce_size)

RunMax(i) == CHOOSE v \in RunOf(i) : \A w \in RunOf(i) : w <= v

\* C7: with reduce_size >= 1 and a.size = out.size * reduce_size, ReduceSum and
\* ReduceMax end having written each out[i] exactly once with the sum (maximum) of the
\* run i of a, reading no element of a at an index >= a.size and writing no index
\* >= out.size.
C7_Reduce ==
  LastOp \in {"ReduceMax", "ReduceSum"} =>
    /\ pc = "done"
    /\ obs.writes = [i \in 1..Len(mem0.out) |-> i - 1]
    /\ \A k \in 1..Len(obs.reads) : obs.reads[k] >= 0 /\ obs.reads[k] < Len(mem0.a)
    /\ Len(mem.out) = Len(mem0.out)
    /\ mem.a = mem0.a
    /\ \A i \in 0..(Len(mem.out) - 1) :
         mem.out[i + 1] = IF LastOp = "ReduceSum" THEN RunSum(i) ELSE RunMax(i)

\* a = [1,2,3,4,5,6] with reduce_size 3 has been reduced to the sums [6,15]
C7_Witness ==
  /\ LastOp = "ReduceSum"
  /\ mem0.a = <<1, 2, 3, 4, 5, 6>>
  /\ args.reduce_size = 3
  /\ mem.out = <<6, 15>>

====
